---------------------------- MODULE Spec2Model ----------------------------
(***************************************************************************)
(* certfix-agent: machine identity derivation, registration / heartbeat    *)
(* loop, update engine (CheckForUpdates / updateBinary) and the companion  *)
(* update script (update.sh).                                              *)
(*                                                                         *)
(* Text is a sequence of one-character strings, so that trimming, joining, *)
(* prefix tests and version parsing are computed the way the code computes *)
(* them.  A file is a record [ok, data]: ok = FALSE is a failed ReadFile.  *)
(***************************************************************************)
EXTENDS Integers, Sequences, FiniteSets, TLC

(***************************************************************************)
(* Bounds of the model                                                     *)
(***************************************************************************)
\* registration failures the endpoint may produce before it must answer OK
MaxFail == 3
\* heartbeat timer ticks explored
MaxTicks == 3
\* CheckForUpdates calls and runs of update.sh explored
MaxChecks == 2
MaxRuns == 2
\* "configure" commands explored
MaxConfigures == 2
\* version bumps explored next to them
MaxBumps == 2

(***************************************************************************)
(* Text helpers                                                            *)
(***************************************************************************)
\* characters in ASCII order (sort.Strings compares bytes)
Alphabet ==
  << "\t", "\n", " ", ",", "-", ".",
     "0", "1", "2", "3", "4", "5", "6", "7", "8", "9", ":",
     "C", "N", "S", "a", "b", "c", "d", "e", "f", "g", "i", "k", "l", "n", "o", "p",
     "r", "s", "t", "u", "v", "w", "z", "|" >>

CharCode(c) == CHOOSE i \in 1..Len(Alphabet) : Alphabet[i] = c

HexChars == << "0", "1", "2", "3", "4", "5", "6", "7", "8", "9",
               "a", "b", "c", "d", "e", "f" >>

DecDigits == { "0", "1", "2", "3", "4", "5", "6", "7", "8", "9" }

IsHexChar(c) == \E i \in 1..Len(HexChars) : HexChars[i] = c

IsSpace(c) == c \in { " ", "\t", "\n" }

Rep(c, n) == [i \in 1..n |-> c]

RECURSIVE TrimLeft(_)
TrimLeft(s) ==
  IF s # << >> /\ IsSpace(Head(s)) THEN TrimLeft(Tail(s)) ELSE s

RECURSIVE TrimRight(_)
TrimRight(s) ==
  IF s # << >> /\ IsSpace(s[Len(s)]) THEN TrimRight(SubSeq(s, 1, Len(s) - 1)) ELSE s

\* strings.TrimSpace
TrimSpace(s) == TrimRight(TrimLeft(s))

\* strings.HasPrefix
HasPrefix(s, p) == Len(s) >= Len(p) /\ SubSeq(s, 1, Len(p)) = p

\* strings.Join
RECURSIVE Join(_, _)
Join(parts, sep) ==
  IF parts = << >> THEN << >>
  ELSE IF Len(parts) = 1 THEN parts[1]
  ELSE parts[1] \o sep \o Join(Tail(parts), sep)

\* byte-wise s < t
RECURSIVE StrLess(_, _)
StrLess(s, t) ==
  IF t = << >> THEN FALSE
  ELSE IF s = << >> THEN TRUE
  ELSE IF Head(s) = Head(t) THEN StrLess(Tail(s), Tail(t))
  ELSE CharCode(Head(s)) < CharCode(Head(t))

RECURSIVE InsertSorted(_, _)
InsertSorted(x, sorted) ==
  IF sorted = << >> THEN << x >>
  ELSE IF StrLess(x, Head(sorted)) THEN << x >> \o sorted
  ELSE << Head(sorted) >> \o InsertSorted(x, Tail(sorted))

\* sort.Strings
RECURSIVE SortStrings(_)
SortStrings(xs) ==
  IF xs = << >> THEN << >> ELSE InsertSorted(Head(xs), SortStrings(Tail(xs)))

\* strings.ToLower ("C", "N" and "S" are the capitals of the alphabet)
ToLower(s) ==
  [i \in 1..Len(s) |-> IF s[i] = "C" THEN "c"
                       ELSE IF s[i] = "N" THEN "n"
                       ELSE IF s[i] = "S" THEN "s" ELSE s[i]]

\* strings.Split on a one-character separator
RECURSIVE Split(_, _)
Split(s, c) ==
  IF \A i \in 1..Len(s) : s[i] # c THEN << s >>
  ELSE LET k == CHOOSE i \in 1..Len(s) : s[i] = c /\ \A j \in 1..(i - 1) : s[j] # c
       IN  << SubSeq(s, 1, k - 1) >> \o Split(SubSeq(s, k + 1, Len(s)), c)

File(s) == [ok |-> TRUE, data |-> s]
NoFile == [ok |-> FALSE, data |-> << >>]

(***************************************************************************)
(* sha256 + hex.EncodeToString: 64 lower-case hex characters determined by *)
(* the input bytes (a small mixing function stands for SHA-256).           *)
(***************************************************************************)
IdLen == 64

RECURSIVE Mix(_, _)
Mix(s, h) ==
  IF s = << >> THEN h ELSE Mix(Tail(s), (h * 31 + CharCode(Head(s))) % 65521)

Sha256Hex(s) ==
  LET h == Mix(s, 7)
  IN  [i \in 1..IdLen |-> HexChars[(((h \div (1 + (i % 7))) + i * (h % 16)) % 16) + 1]]

(***************************************************************************)
(* Identity deriver (package machineidentifier), linux build               *)
(***************************************************************************)
ZeroUUID ==
  Rep("0", 8) \o << "-" >> \o Rep("0", 4) \o << "-" >> \o Rep("0", 4) \o << "-" >>
    \o Rep("0", 4) \o << "-" >> \o Rep("0", 12)

NoneSerial == << "N", "o", "n", "e" >>
ZeroCPUSerial == Rep("0", 16)
SerialKey == << "S", "e", "r", "i", "a", "l" >>
ProcessorKey == << "p", "r", "o", "c", "e", "s", "s", "o", "r" >>

\* getSystemUUID: product_uuid, then board_serial, else whatever uuid holds
getSystemUUID(h) ==
  LET uuid == IF h.product_uuid.ok THEN TrimSpace(h.product_uuid.data) ELSE << >>
      serial == TrimSpace(h.board_serial.data)
  IN  IF h.product_uuid.ok /\ uuid # << >> /\ uuid # ZeroUUID THEN uuid
      ELSE IF h.board_serial.ok /\ serial # << >> /\ serial # NoneSerial THEN serial
      ELSE uuid

virtualPrefixes ==
  << << "0", "0", ":", "0", "0", ":", "0", "0" >>,
     << "0", "0", ":", "0", "5", ":", "6", "9" >>,
     << "0", "0", ":", "0", "c", ":", "2", "9" >>,
     << "0", "0", ":", "5", "0", ":", "5", "6" >>,
     << "0", "0", ":", "1", "c", ":", "1", "4" >>,
     << "0", "8", ":", "0", "0", ":", "2", "7" >>,
     << "0", "0", ":", "1", "5", ":", "5", "d" >>,
     << "0", "0", ":", "1", "6", ":", "3", "e" >> >>

\* a prefix test that compares the address as it is written
isVirtualMAC_CaseSensitive(mac) ==
  \E i \in 1..Len(virtualPrefixes) : HasPrefix(mac, virtualPrefixes[i])

isVirtualMAC(mac) ==
  \E i \in 1..Len(virtualPrefixes) :
    HasPrefix(ToLower(mac), ToLower(virtualPrefixes[i]))

RECURSIVE FilterMACs(_)
FilterMACs(ifs) ==
  IF ifs = << >> THEN << >>
  ELSE LET iface == Head(ifs)
       IN  IF iface.loopback THEN FilterMACs(Tail(ifs))
           ELSE IF iface.mac # << >> /\ ~isVirtualMAC(iface.mac)
                THEN << iface.mac >> \o FilterMACs(Tail(ifs))
                ELSE FilterMACs(Tail(ifs))

\* getMACAddresses: non-loopback, non-virtual, non-empty, sorted
getMACAddresses(h) ==
  IF ~h.ifaces.ok THEN << >> ELSE SortStrings(FilterMACs(h.ifaces.list))

\* getOSMachineID: /etc/machine-id, then /var/lib/dbus/machine-id
getOSMachineID(h) ==
  IF h.etc_machine_id.ok /\ TrimSpace(h.etc_machine_id.data) # << >>
    THEN TrimSpace(h.etc_machine_id.data)
  ELSE IF h.dbus_machine_id.ok /\ TrimSpace(h.dbus_machine_id.data) # << >>
    THEN TrimSpace(h.dbus_machine_id.data)
  ELSE << >>

RECURSIVE ScanCPU(_, _)
ScanCPU(lines, acc) ==
  IF lines = << >> THEN acc
  ELSE LET line == Head(lines)
           parts == Split(line, ":")
           a1 == IF HasPrefix(line, SerialKey) /\ Len(parts) >= 2
                   THEN [acc EXCEPT !.serial = TrimSpace(parts[2])] ELSE acc
           a2 == IF HasPrefix(line, ProcessorKey) /\ a1.processor = << >> /\ Len(parts) >= 2
                   THEN [a1 EXCEPT !.processor = TrimSpace(parts[2])] ELSE a1
       IN  ScanCPU(Tail(lines), a2)

\* getCPUInfo: Serial line if not the placeholder, else the first processor line
getCPUInfo(h) ==
  IF ~h.cpuinfo.ok THEN << >>
  ELSE LET r == ScanCPU(Split(h.cpuinfo.data, "\n"), [serial |-> << >>, processor |-> << >>])
       IN  IF r.serial # << >> /\ r.serial # ZeroCPUSerial THEN r.serial ELSE r.processor

getBootID(h) == IF h.boot_id.ok THEN TrimSpace(h.boot_id.data) ELSE << >>

Delimiter == << "|" >>
Comma == << "," >>

Opt(v) == IF v # << >> THEN << v >> ELSE << >>

\* a derivation that forgets the last-resort signal
components_NoBootID(h) ==
  Opt(getSystemUUID(h))
    \o (IF Len(getMACAddresses(h)) > 0 THEN << Join(getMACAddresses(h), Comma) >> ELSE << >>)
    \o Opt(getOSMachineID(h))
    \o Opt(getCPUInfo(h))

\* a derivation that appends the MAC list before the platform UUID
components_MacFirst(h) ==
  (IF Len(getMACAddresses(h)) > 0 THEN << Join(getMACAddresses(h), Comma) >> ELSE << >>)
    \o Opt(getSystemUUID(h))
    \o Opt(getOSMachineID(h))
    \o Opt(getCPUInfo(h))
    \o Opt(getBootID(h))

\* the components list of generateFromHardware, in the order it appends them
components(h) ==
  Opt(getSystemUUID(h))
    \o (IF Len(getMACAddresses(h)) > 0 THEN << Join(getMACAddresses(h), Comma) >> ELSE << >>)
    \o Opt(getOSMachineID(h))
    \o Opt(getCPUInfo(h))
    \o Opt(getBootID(h))

generateFromHardware(h) ==
  IF Len(components(h)) = 0
    THEN [id |-> << >>, err |-> "no_identifiers"]
    ELSE [id |-> Sha256Hex(Join(components(h), Delimiter)), err |-> "nil"]

\* loadStoredMachineID: trimmed content, accepted when its length is 64
loadStoredMachineID(f) ==
  IF ~f.ok THEN [id |-> << >>, err |-> "read"]
  ELSE IF Len(TrimSpace(f.data)) # IdLen THEN [id |-> << >>, err |-> "length"]
  ELSE [id |-> TrimSpace(f.data), err |-> "nil"]

\* storeMachineID: MkdirAll + WriteFile; writeOk = FALSE is a failed write
storeMachineID(f, id, writeOk) == IF writeOk THEN File(id) ELSE f

\* a GenerateMachineID that returns the error of a failed store
GenerateMachineID_FailOnStore(f, h, writeOk) ==
  LET stored == loadStoredMachineID(f)
      gen == generateFromHardware(h)
  IN  IF stored.err = "nil" /\ stored.id # << >>
        THEN [id |-> stored.id, err |-> "nil", file |-> f, stored |-> FALSE]
      ELSE IF gen.err # "nil"
        THEN [id |-> << >>, err |-> "no_signals", file |-> f, stored |-> FALSE]
      ELSE IF ~writeOk
        THEN [id |-> << >>, err |-> "store", file |-> f, stored |-> FALSE]
      ELSE [id |-> gen.id, err |-> "nil", file |-> storeMachineID(f, gen.id, writeOk),
            stored |-> writeOk]

\* a GenerateMachineID that derives from hardware first and falls back to the
\* stored value only when no signal is available
GenerateMachineID_PreferHardware(f, h, writeOk) ==
  LET stored == loadStoredMachineID(f)
      gen == generateFromHardware(h)
  IN  IF gen.err = "nil"
        THEN [id |-> gen.id, err |-> "nil", file |-> storeMachineID(f, gen.id, writeOk),
              stored |-> writeOk]
      ELSE IF stored.err = "nil" /\ stored.id # << >>
        THEN [id |-> stored.id, err |-> "nil", file |-> f, stored |-> FALSE]
      ELSE [id |-> << >>, err |-> "no_signals", file |-> f, stored |-> FALSE]

\* GenerateMachineID: result and the identity file it leaves behind
GenerateMachineID(f, h, writeOk) ==
  LET stored == loadStoredMachineID(f)
      gen == generateFromHardware(h)
  IN  IF stored.err = "nil" /\ stored.id # << >>
        THEN [id |-> stored.id, err |-> "nil", file |-> f, stored |-> FALSE]
      ELSE IF gen.err # "nil"
        THEN [id |-> << >>, err |-> "no_signals", file |-> f, stored |-> FALSE]
      ELSE [id |-> gen.id, err |-> "nil", file |-> storeMachineID(f, gen.id, writeOk),
            stored |-> writeOk]

\* GetMachineFingerprint
GetMachineFingerprint(f, h, writeOk) ==
  LET r == GenerateMachineID(f, h, writeOk)
  IN  IF r.err # "nil" THEN << "u", "n", "k", "n", "o", "w", "n" >>
      ELSE IF Len(r.id) >= 16 THEN SubSeq(r.id, 1, 16) ELSE r.id

\* a ValidateMachineID that compares without looking at the error
ValidateMachineID_IgnoreError(storedID, h) == storedID = generateFromHardware(h).id

\* ValidateMachineID
ValidateMachineID(storedID, h) ==
  generateFromHardware(h).err = "nil" /\ storedID = generateFromHardware(h).id

(***************************************************************************)
(* Hosts: what the signal sources of a machine hold                        *)
(***************************************************************************)
PhysMacA == << "a", "0", ":", "1", "1", ":", "2", "2", ":", "0", "1" >>
PhysMacB == << "0", "a", ":", "1", "1", ":", "2", "2", ":", "0", "2" >>
VirtMac == << "0", "0", ":", "0", "c", ":", "2", "9", ":", "0", "3" >>
VirtMacUpper == << "0", "0", ":", "0", "C", ":", "2", "9", ":", "0", "3" >>
Loopback == [loopback |-> TRUE, mac |-> << >>]
Nic(m) == [loopback |-> FALSE, mac |-> m]

CpuInfoSerial ==
  ProcessorKey \o << ":", " ", "0", "\n" >> \o SerialKey \o << ":", " ", "c", "9", "\n" >>
CpuInfoPlaceholder ==
  ProcessorKey \o << ":", " ", "0", "\n" >> \o SerialKey \o << ":", " " >> \o ZeroCPUSerial
    \o << "\n" >>

HostNone ==
  [product_uuid |-> NoFile, board_serial |-> NoFile,
   ifaces |-> [ok |-> FALSE, list |-> << >>],
   etc_machine_id |-> NoFile, dbus_machine_id |-> NoFile,
   cpuinfo |-> NoFile, boot_id |-> NoFile]

HostFull ==
  [product_uuid |-> File(<< "a", "1", "\n" >>), board_serial |-> File(<< "b", "2", "\n" >>),
   ifaces |-> [ok |-> TRUE, list |-> << Loopback, Nic(PhysMacA), Nic(PhysMacB), Nic(VirtMac) >>],
   etc_machine_id |-> File(<< "e", "3", "\n" >>), dbus_machine_id |-> File(<< "d", "4", "\n" >>),
   cpuinfo |-> File(CpuInfoSerial), boot_id |-> File(<< "b", "5", "\n" >>)]

HostRebooted == [HostFull EXCEPT !.boot_id = File(<< "b", "6", "\n" >>)]

HostBootOnly == [HostNone EXCEPT !.boot_id = File(<< "b", "5", "\n" >>)]

HostVirtualNics ==
  [HostNone EXCEPT !.ifaces = [ok |-> TRUE, list |-> << Loopback, Nic(VirtMac) >>],
                   !.dbus_machine_id = File(<< "d", "4", "\n" >>)]

HostOnlyVirtualNics ==
  [HostNone EXCEPT !.ifaces = [ok |-> TRUE, list |-> << Loopback, Nic(VirtMac) >>]]

HostPlaceholders ==
  [HostNone EXCEPT !.product_uuid = File(ZeroUUID \o << "\n" >>),
                   !.board_serial = File(NoneSerial \o << "\n" >>),
                   !.cpuinfo = File(CpuInfoPlaceholder)]

\* HostFull with its interfaces listed in another order and another dbus id
HostReordered ==
  [HostFull EXCEPT !.ifaces = [ok |-> TRUE,
                               list |-> << Nic(PhysMacB), Nic(VirtMac), Loopback, Nic(PhysMacA) >>],
                   !.dbus_machine_id = File(<< "d", "7", "\n" >>)]

HostBonded ==
  [HostNone EXCEPT !.ifaces = [ok |-> TRUE, list |-> << Nic(PhysMacA), Nic(PhysMacB), Nic(PhysMacA) >>]]

\* hosts with one signal each, of the same value
HostUuidOnly == [HostNone EXCEPT !.product_uuid = File(<< "a", "1", "\n" >>)]
HostMachineIdOnly == [HostNone EXCEPT !.etc_machine_id = File(<< "a", "1", "\n" >>)]

Hosts ==
  { HostNone, HostFull, HostRebooted, HostBootOnly, HostVirtualNics, HostOnlyVirtualNics,
    HostPlaceholders, HostBonded, HostReordered, HostUuidOnly, HostMachineIdOnly }

\* what the identity file may hold (absent, empty, short, valid, long, not hex, padded)
IdFileChoices ==
  { NoFile, File(<< >>), File(Rep("a", IdLen - 1)), File(Rep("a", IdLen)),
    File(Rep("a", IdLen + 1)), File(Rep("z", IdLen)),
    File(Rep("b", IdLen) \o << "\n" >>) }

(***************************************************************************)
(* State                                                                   *)
(***************************************************************************)
VARIABLES
  idFile,     \* /etc/certfix-agent/machine-id
  hw,         \* the signal sources of the host
  idRes,      \* the last GenerateMachineID call: its inputs and its result
  cfgFile,    \* /etc/certfix-agent/config.json
  agentPc,    \* position of handleStart
  snapshot,   \* instanceData built by collectInstanceData
  instanceID, \* registerResp.InstanceID
  regCalls,   \* registerInstance calls made
  regFails,   \* of which failed
  regOK,      \* of which succeeded
  sleeps,     \* time.Sleep(REGISTER_RETRY_DELAY) calls completed
  tickChan,   \* ticks waiting in heartbeatTicker.C (capacity 1)
  ticks,      \* ticks delivered by the ticker
  hbSent,     \* heartbeat requests sent
  hbFailed,   \* of which failed
  binPath,    \* content of /usr/local/bin/certfix-agent
  binExec,    \* its executable bit
  svc,        \* state of the certfix-agent service: "active" or "inactive"
  engPc,      \* position of CheckForUpdates / updateBinary
  engCur,     \* cfg.CurrentVer of the running check
  engTag,     \* rel.TagName of the running check
  engOutcome, \* how the last CheckForUpdates call left its body
  engSteps,   \* swap steps the running check has executed, with their outcome
  engTmp,     \* content of /tmp/certfix-agent
  engChecks,  \* CheckForUpdates calls made
  scrPc,      \* position of update.sh
  scrCur,     \* CURRENT_VERSION
  scrLatest,  \* LATEST_VERSION
  scrTmp,     \* content of /tmp/certfix-agent-new
  backups,    \* files of /tmp/certfix-agent-backup, newest first (ls -t)
  wasRunning, \* SERVICE_WAS_RUNNING
  scrWhy,     \* why the running script called rollback, "none" if it did not
  scrPrev,    \* what the install path held when the running script began
  scrOps,     \* what the running script has done so far
  scrExit,    \* exit status of the last run, -1 before the first
  scrRuns,    \* runs of update.sh started
  regRes,     \* the last registerInstance call: the answer and its result
  hbReq,      \* the last heartbeat request: the instance id in its URL
  valRes,     \* the last ValidateMachineID call: its inputs and its result
  cfgRes,     \* the last "configure" command: its inputs and its result
  cfgCmd,     \* a "configure" process between its loadConfig and its saveConfig
  bumpCmd     \* update_config_version between writing $temp_file and its mv

idVars == << idFile, hw, idRes >>
agentVars ==
  << agentPc, snapshot, instanceID, regCalls, regFails, regOK, sleeps, tickChan, ticks,
     hbSent, hbFailed, regRes, hbReq >>
cmdVars == << valRes, cfgRes, cfgCmd, bumpCmd >>
fsVars == << binPath, binExec, svc >>
engVars == << engPc, engCur, engTag, engOutcome, engSteps, engTmp, engChecks >>
scrVars ==
  << scrPc, scrCur, scrLatest, scrTmp, backups, wasRunning, scrWhy, scrPrev, scrOps,
     scrExit, scrRuns >>
\* what the agent, the identity deriver, the engine and the script leave alone
outsideAgent == << fsVars, engVars, scrVars, cmdVars >>
outsideIdentity == << cfgFile, agentVars, outsideAgent >>
outsideEngine == << idVars, cfgFile, agentVars, scrVars, cmdVars >>
outsideScript == << idVars, agentVars, engVars, cmdVars >>
vars == << idVars, cfgFile, agentVars, fsVars, engVars, scrVars, cmdVars >>

(***************************************************************************)
(* Version strings                                                         *)
(***************************************************************************)
V001 == << "0", ".", "0", ".", "1" >>
V010 == << "0", ".", "1", ".", "0" >>
V020 == << "0", ".", "2", ".", "0" >>
V0100 == << "0", ".", "1", "0", ".", "0" >>
VPrefixed020 == << "v", "0", ".", "2", ".", "0" >>
BadTag == << "b", "a", "d", "-", "t", "a", "g" >>

(***************************************************************************)
(* Configuration file (cmd/agent.go Config, internal Config)               *)
(***************************************************************************)
Token1 == << "t", "1" >>
Endpoint1 == << "e", "1" >>
ArchAmd64 == << "a", "6", "4" >>

\* readable = ReadFile succeeds, json = the content is a JSON object
Config(tok, ep, ver, au) ==
  [readable |-> TRUE, json |-> TRUE, token |-> tok, endpoint |-> ep,
   current_version |-> ver, auto_update |-> au, architecture |-> ArchAmd64]

NoConfig ==
  [readable |-> FALSE, json |-> FALSE, token |-> << >>, endpoint |-> << >>,
   current_version |-> << >>, auto_update |-> FALSE, architecture |-> << >>]

GarbledConfig == [NoConfig EXCEPT !.readable = TRUE]

DEFAULT_VERSION == << "0", ".", "0", ".", "0" >>

\* a loadConfig that does not insist on the token
loadConfig_NoTokenCheck(f) ==
  IF ~f.readable THEN [err |-> "read", cfg |-> NoConfig]
  ELSE IF ~f.json THEN [err |-> "parse", cfg |-> NoConfig]
  ELSE IF f.endpoint = << >> THEN [err |-> "endpoint", cfg |-> NoConfig]
  ELSE [err |-> "nil",
        cfg |-> [f EXCEPT !.current_version =
                   IF f.current_version = << >> THEN DEFAULT_VERSION ELSE f.current_version]]

\* loadConfig of cmd/agent.go
loadConfig(f) ==
  IF ~f.readable THEN [err |-> "read", cfg |-> NoConfig]
  ELSE IF ~f.json THEN [err |-> "parse", cfg |-> NoConfig]
  ELSE IF f.token = << >> THEN [err |-> "token", cfg |-> NoConfig]
  ELSE IF f.endpoint = << >> THEN [err |-> "endpoint", cfg |-> NoConfig]
  ELSE [err |-> "nil",
        cfg |-> [f EXCEPT !.current_version =
                   IF f.current_version = << >> THEN DEFAULT_VERSION ELSE f.current_version]]

(***************************************************************************)
(* Binaries on disk: the release they were built from and how many of      *)
(* their BinBlocks blocks are written                                      *)
(***************************************************************************)
BinBlocks == 2

Bin(v) == [present |-> TRUE, ver |-> v, len |-> BinBlocks]
PartialBin(v, n) == [present |-> TRUE, ver |-> v, len |-> n]
NoBin == [present |-> FALSE, ver |-> << >>, len |-> 0]
Complete(b) == b.present /\ b.len = BinBlocks

NoSnapshot ==
  [built |-> FALSE, machine_id |-> << >>, fingerprint |-> << >>, version |-> << >>,
   mac_address |-> << >>]

NoCall ==
  [called |-> FALSE, fileBefore |-> NoFile, hwBefore |-> HostNone, writeOk |-> FALSE,
   id |-> << >>, err |-> "nil", fileAfter |-> NoFile]

(***************************************************************************)
(* Identity: calls of GenerateMachineID on a host whose identity file and  *)
(* signal sources change between calls                                     *)
(***************************************************************************)
NoRegCall ==
  [called |-> FALSE, sent |-> NoSnapshot, hwAt |-> HostNone,
   resp |-> [transport |-> FALSE, status |-> 0, decodable |-> FALSE, body |-> << >>],
   res |-> [err |-> "nil", instance_id |-> << >>, status |-> 0, body |-> << >>]]

NoHeartbeat == [sent |-> FALSE, instance_id |-> << >>]

NoValidation ==
  [called |-> FALSE, storedID |-> << >>, hwBefore |-> HostNone, fileBefore |-> NoFile,
   result |-> FALSE]

NoConfigure ==
  [runs |-> 0, before |-> NoConfig, token |-> << >>, endpoint |-> << >>, exit |-> -1]

NoCfgCmd ==
  [pc |-> "idle", token |-> << >>, endpoint |-> << >>, version |-> << >>, runs |-> 0,
   written |-> FALSE, overlapped |-> FALSE]

NoBumpCmd ==
  [pc |-> "idle", temp_file |-> NoConfig, new_version |-> << >>, runs |-> 0,
   moved |-> FALSE]

CommandsIdle ==
  valRes = NoValidation /\ cfgRes = NoConfigure /\ cfgCmd = NoCfgCmd /\ bumpCmd = NoBumpCmd

AgentIdle ==
  /\ agentPc = "off"
  /\ snapshot = NoSnapshot
  /\ instanceID = << >>
  /\ regCalls = 0 /\ regFails = 0 /\ regOK = 0 /\ sleeps = 0
  /\ tickChan = 0 /\ ticks = 0 /\ hbSent = 0 /\ hbFailed = 0
  /\ regRes = NoRegCall
  /\ hbReq = NoHeartbeat

EngineIdle ==
  /\ engPc = "idle"
  /\ engCur = << >>
  /\ engTag = << >>
  /\ engOutcome = "none"
  /\ engSteps = << >>
  /\ engTmp = NoBin
  /\ engChecks = 0

ScriptIdle ==
  /\ scrPc = "idle"
  /\ scrCur = << >>
  /\ scrLatest = << >>
  /\ scrTmp = NoBin
  /\ backups = << >>
  /\ wasRunning = FALSE
  /\ scrWhy = "none"
  /\ scrPrev = NoBin
  /\ scrOps = << >>
  /\ scrExit = -1
  /\ scrRuns = 0

InitIdentity ==
  /\ idFile = NoFile
  /\ hw \in Hosts
  /\ idRes = NoCall
  /\ cfgFile = NoConfig
  /\ AgentIdle
  /\ CommandsIdle
  /\ binPath = Bin(V010) /\ binExec = TRUE /\ svc = "inactive"
  /\ EngineIdle
  /\ ScriptIdle

\* handleMachineID / collectInstanceData: one call of GenerateMachineID
IdGenerate ==
  \E writeOk \in BOOLEAN :
    LET r == GenerateMachineID(idFile, hw, writeOk)
    IN  /\ idRes' = [called |-> TRUE, fileBefore |-> idFile, hwBefore |-> hw,
                     writeOk |-> writeOk, id |-> r.id, err |-> r.err,
                     fileAfter |-> r.file]
        /\ idFile' = r.file
        /\ UNCHANGED << hw, outsideIdentity >>

\* the identity file is removed, truncated or overwritten behind the agent's back
IdCorrupt ==
  /\ \E f \in IdFileChoices : idFile' = f /\ f # idFile
  /\ UNCHANGED << hw, idRes, outsideIdentity >>

\* hardware change, reboot, or sources becoming unreadable
IdHwChange ==
  /\ \E h \in Hosts : hw' = h /\ h # hw
  /\ UNCHANGED << idFile, idRes, outsideIdentity >>

NextIdentity == IdGenerate \/ IdCorrupt \/ IdHwChange

SpecIdentity == InitIdentity /\ [][NextIdentity]_vars

(***************************************************************************)
(* Registration client and heartbeat (cmd/agent.go)                        *)
(***************************************************************************)
Inst1 == << "i", "1" >>

\* what the registration endpoint may answer
BodyInstance == << "i", "1" >>
BodyText == << "n", "o" >>

RegResponses ==
  { [transport |-> FALSE, status |-> 0, decodable |-> FALSE, body |-> << >>],
    [transport |-> TRUE, status |-> 500, decodable |-> FALSE, body |-> BodyText],
    [transport |-> TRUE, status |-> 500, decodable |-> TRUE, body |-> BodyInstance],
    [transport |-> TRUE, status |-> 201, decodable |-> TRUE, body |-> BodyInstance],
    [transport |-> TRUE, status |-> 200, decodable |-> FALSE, body |-> BodyText],
    [transport |-> TRUE, status |-> 200, decodable |-> TRUE, body |-> BodyInstance] }

\* what the heartbeat endpoint may answer
HbResponses ==
  { [transport |-> FALSE, status |-> 0],
    [transport |-> TRUE, status |-> 500],
    [transport |-> TRUE, status |-> 200] }

RegError(kind) == [err |-> kind, instance_id |-> << >>, status |-> 0, body |-> << >>]

\* a registerInstance that takes every answer below 300 for a success
registerInstance_AnySuccessStatus(resp) ==
  IF ~resp.transport THEN RegError("send")
  ELSE IF resp.status >= 300
    THEN [RegError("status") EXCEPT !.status = resp.status, !.body = resp.body]
  ELSE IF ~resp.decodable THEN RegError("parse")
  ELSE [RegError("nil") EXCEPT !.instance_id = Inst1]

\* registerInstance: one request, no retry inside; the status error carries
\* the status code and the body as read
registerInstance(resp) ==
  IF ~resp.transport THEN RegError("send")
  ELSE IF resp.status # 200
    THEN [RegError("status") EXCEPT !.status = resp.status, !.body = resp.body]
  ELSE IF ~resp.decodable THEN RegError("parse")
  ELSE [RegError("nil") EXCEPT !.instance_id = Inst1]

\* sendHeartbeat
sendHeartbeat(resp) ==
  IF ~resp.transport THEN "send"
  ELSE IF resp.status # 200 THEN "status"
  ELSE "nil"

\* the retry loop of handleStart: where it goes after a registerInstance call
RegisterStep_ProceedOnError(err) == "registered"
RegisterStep_GiveUp(err) == IF err = "nil" THEN "registered" ELSE "exited"
RegisterStep(err) == IF err = "nil" THEN "registered" ELSE "backoff"

\* the ticker case of handleStart: requests sent for one tick, and where it goes
HeartbeatStep_Reregister(err) ==
  [sends |-> 1, pc |-> IF err = "nil" THEN "registered" ELSE "register"]
HeartbeatStep_RetryNow(err) ==
  [sends |-> IF err = "nil" THEN 1 ELSE 2, pc |-> "registered"]
HeartbeatStep_StopOnError(err) ==
  [sends |-> 1, pc |-> IF err = "nil" THEN "registered" ELSE "exited"]
HeartbeatStep(err) == [sends |-> 1, pc |-> "registered"]

AgentConfigs ==
  { NoConfig, GarbledConfig,
    Config(<< >>, Endpoint1, V010, FALSE), Config(Token1, << >>, V010, FALSE),
    Config(Token1, Endpoint1, V010, FALSE), Config(Token1, Endpoint1, << >>, FALSE) }

RECURSIVE FirstMAC(_)
FirstMAC(ifs) ==
  IF ifs = << >> THEN << >>
  ELSE IF Head(ifs).loopback \/ Head(ifs).mac = << >> THEN FirstMAC(Tail(ifs))
  ELSE Head(ifs).mac

\* getMACAddress: the address of the first interface that is not loopback, is
\* up and has one (every interface of a host is up)
getMACAddress(h) == IF ~h.ifaces.ok THEN << >> ELSE FirstMAC(h.ifaces.list)

AgentHosts == { HostNone, HostFull, HostBootOnly }

InitAgent ==
  /\ idFile \in { NoFile, File(Rep("a", IdLen)) }
  /\ hw \in AgentHosts
  /\ idRes = NoCall
  /\ cfgFile \in AgentConfigs
  /\ AgentIdle
  /\ CommandsIdle
  /\ binPath = Bin(V010) /\ binExec = TRUE /\ svc = "active"
  /\ EngineIdle
  /\ ScriptIdle

\* handleStart up to the machine identifier: loadConfig, then the first
\* GenerateMachineID of collectInstanceData; log.Fatalf ends the process
AgentStart ==
  /\ agentPc = "off"
  /\ LET lc == loadConfig(cfgFile)
     IN  IF lc.err # "nil"
           THEN /\ agentPc' = "exited"
                /\ UNCHANGED << idFile, snapshot >>
           ELSE \E writeOk \in BOOLEAN :
                  LET r == GenerateMachineID(idFile, hw, writeOk)
                  IN  IF r.err # "nil"
                        THEN /\ agentPc' = "exited"
                             /\ UNCHANGED << idFile, snapshot >>
                        ELSE /\ agentPc' = "fingerprint"
                             /\ idFile' = r.file
                             /\ snapshot' = [built |-> FALSE, machine_id |-> r.id,
                                             fingerprint |-> << >>,
                                             version |-> lc.cfg.current_version,
                                             mac_address |-> << >>]
  /\ UNCHANGED << hw, idRes, cfgFile, regRes, hbReq, instanceID, regCalls, regFails, regOK, sleeps,
                  tickChan, ticks, hbSent, hbFailed, outsideAgent >>

\* the rest of collectInstanceData: GetMachineFingerprint derives the identity again
AgentFingerprint ==
  /\ agentPc = "fingerprint"
  /\ \E writeOk \in BOOLEAN :
       /\ snapshot' = [snapshot EXCEPT !.built = TRUE,
                                       !.mac_address = getMACAddress(hw),
                                       !.fingerprint = GetMachineFingerprint(idFile, hw, writeOk)]
       /\ idFile' = GenerateMachineID(idFile, hw, writeOk).file
  /\ agentPc' = "register"
  /\ UNCHANGED << hw, idRes, cfgFile, regRes, hbReq, instanceID, regCalls, regFails, regOK, sleeps,
                  tickChan, ticks, hbSent, hbFailed, outsideAgent >>

\* one pass of the retry loop: registerInstance, then break or go to sleep
AgentRegister ==
  /\ agentPc = "register"
  /\ \E resp \in RegResponses :
       LET r == registerInstance(resp)
       IN  /\ r.err # "nil" => regFails < MaxFail
           /\ regCalls' = regCalls + 1
           /\ regFails' = IF r.err # "nil" THEN regFails + 1 ELSE regFails
           /\ regOK' = IF r.err = "nil" THEN regOK + 1 ELSE regOK
           /\ instanceID' = IF r.err = "nil" THEN r.instance_id ELSE instanceID
           /\ agentPc' = RegisterStep(r.err)
           /\ regRes' = [called |-> TRUE, sent |-> snapshot, hwAt |-> hw, resp |-> resp,
                         res |-> r]
  /\ UNCHANGED << idVars, cfgFile, snapshot, sleeps, tickChan, ticks, hbSent, hbFailed,
                  hbReq, outsideAgent >>

\* time.Sleep(REGISTER_RETRY_DELAY); continue
AgentBackoff ==
  /\ agentPc = "backoff"
  /\ sleeps' = sleeps + 1
  /\ agentPc' = "register"
  /\ UNCHANGED << idVars, cfgFile, regRes, hbReq, snapshot, instanceID, regCalls, regFails, regOK,
                  tickChan, ticks, hbSent, hbFailed, outsideAgent >>

\* heartbeatTicker delivers a tick; a request takes at most its 10 s timeout,
\* far less than HEARTBEAT_INTERVAL, so the channel is empty when a tick is due
AgentTick ==
  /\ agentPc = "registered"
  /\ tickChan = 0
  /\ ticks < MaxTicks
  /\ tickChan' = 1
  /\ ticks' = ticks + 1
  /\ UNCHANGED << idVars, cfgFile, regRes, hbReq, agentPc, snapshot, instanceID, regCalls, regFails,
                  regOK, sleeps, hbSent, hbFailed, outsideAgent >>

\* case <-heartbeatTicker.C: sendHeartbeat, log the outcome, loop
AgentHeartbeat ==
  /\ agentPc = "registered"
  /\ tickChan = 1
  /\ \E resp \in HbResponses :
       LET err == sendHeartbeat(resp)
           step == HeartbeatStep(err)
       IN  /\ hbSent' = hbSent + step.sends
           /\ hbFailed' = IF err # "nil" THEN hbFailed + 1 ELSE hbFailed
           /\ agentPc' = step.pc
  /\ hbReq' = [sent |-> TRUE, instance_id |-> instanceID]
  /\ tickChan' = 0
  /\ UNCHANGED << idVars, cfgFile, regRes, snapshot, instanceID, regCalls, regFails, regOK,
                  sleeps, ticks, outsideAgent >>

\* the signal sources change while the agent runs (an interface is added or
\* removed, a source becomes unreadable)
AgentHwChange ==
  /\ \E h \in AgentHosts : hw' = h /\ h # hw
  /\ UNCHANGED << idFile, idRes, cfgFile, agentVars, outsideAgent >>

NextAgent ==
  \/ AgentHwChange
  \/ AgentStart
  \/ AgentFingerprint
  \/ AgentRegister
  \/ AgentBackoff
  \/ AgentTick
  \/ AgentHeartbeat

SpecAgent == InitAgent /\ [][NextAgent]_vars

\* the process is not killed (its loops keep taking their next step) and the
\* ticker keeps running; the endpoint fails at most MaxFail Register calls
SpecAgentLive ==
  /\ SpecAgent
  /\ WF_vars(AgentRegister \/ AgentBackoff \/ AgentHeartbeat)
  /\ WF_vars(AgentTick)

\* the states of section 4.3
AgentState ==
  IF agentPc = "registered" THEN "Registered"
  ELSE IF agentPc \in { "register", "backoff" } /\ regCalls > 0 THEN "Registering"
  ELSE IF agentPc = "register" THEN "Unregistered"
  ELSE "NotStarted"

(***************************************************************************)
(* The "configure" command (handleConfigure, saveConfig)                   *)
(***************************************************************************)
Token2 == << "t", "2" >>

\* saveConfig: MkdirAll, MarshalIndent, WriteFile, Chmod; the Config struct of
\* cmd/agent.go has no auto_update field, so the file written has none
saveConfig(f, config, outcome) ==
  IF outcome = "write" THEN [err |-> "write", file |-> f]
  ELSE [err |-> IF outcome = "chmod" THEN "chmod" ELSE "nil",
        file |-> Config(config.token, config.endpoint, config.current_version, FALSE)]

\* handleConfigure: exit status and the config file it leaves
handleConfigure(f, token, endpoint, outcome) ==
  IF token = << >> \/ endpoint = << >> THEN [exit |-> 1, file |-> f]
  ELSE LET existingConfig == loadConfig(f)
           version == IF existingConfig.err = "nil"
                           /\ existingConfig.cfg.current_version # << >>
                        THEN existingConfig.cfg.current_version
                        ELSE DEFAULT_VERSION
           saved == saveConfig(f, [token |-> token, endpoint |-> endpoint,
                                   current_version |-> version], outcome)
       IN  [exit |-> IF saved.err = "nil" THEN 0 ELSE 1, file |-> saved.file]

\* config files a "configure" may find: none, not JSON, the one install.sh
\* writes when its prompts are answered with the empty line, complete ones,
\* and ones without version or endpoint
ConfigureFiles ==
  { NoConfig, GarbledConfig,
    Config(<< >>, << >>, V001, FALSE), Config(Token1, Endpoint1, V001, TRUE),
    Config(Token1, Endpoint1, V020, FALSE), Config(Token1, Endpoint1, << >>, FALSE),
    Config(Token1, << >>, V010, FALSE) }

InitConfigure ==
  /\ idFile = NoFile
  /\ hw = HostFull
  /\ idRes = NoCall
  /\ cfgFile \in ConfigureFiles
  /\ AgentIdle
  /\ CommandsIdle
  /\ binPath = Bin(V010) /\ binExec = TRUE /\ svc = "inactive"
  /\ EngineIdle
  /\ ScriptIdle

\* certfix-agent configure --token ... --endpoint ...
Configure ==
  /\ cfgRes.runs < MaxConfigures
  /\ \E token \in { << >>, Token1, Token2 }, endpoint \in { << >>, Endpoint1 },
        outcome \in { "ok", "write", "chmod" } :
       LET r == handleConfigure(cfgFile, token, endpoint, outcome)
       IN  /\ cfgFile' = r.file
           /\ cfgRes' = [runs |-> cfgRes.runs + 1, before |-> cfgFile, token |-> token,
                         endpoint |-> endpoint, exit |-> r.exit]
  /\ UNCHANGED << idVars, valRes, cfgCmd, bumpCmd, agentVars, fsVars, engVars, scrVars >>

NextConfigure == Configure

SpecConfigure == InitConfigure /\ [][NextConfigure]_vars

(***************************************************************************)
(* ValidateMachineID called with an identifier the caller holds, on a host *)
(* whose identity file and signal sources change between calls             *)
(***************************************************************************)
ValidateFiles == { NoFile, File(Rep("a", IdLen)), File(generateFromHardware(HostFull).id) }

\* identifiers a caller may hold: none, one not derived here, one derived
\* on some host, or the persisted one
ValidateInputs(f) ==
  { << >>, Rep("a", IdLen) } \cup { generateFromHardware(h).id : h \in Hosts }
    \cup (IF f.ok THEN { TrimSpace(f.data) } ELSE { })

InitValidate ==
  /\ idFile \in ValidateFiles
  /\ hw \in Hosts
  /\ idRes = NoCall
  /\ cfgFile = NoConfig
  /\ AgentIdle
  /\ CommandsIdle
  /\ binPath = Bin(V010) /\ binExec = TRUE /\ svc = "inactive"
  /\ EngineIdle
  /\ ScriptIdle

\* one call of ValidateMachineID(storedID)
IdValidate ==
  /\ \E storedID \in ValidateInputs(idFile) :
       valRes' = [called |-> TRUE, storedID |-> storedID, hwBefore |-> hw,
                  fileBefore |-> idFile, result |-> ValidateMachineID(storedID, hw)]
  /\ UNCHANGED << idVars, cfgFile, cfgRes, cfgCmd, bumpCmd, agentVars, fsVars, engVars,
                  scrVars >>

\* the identity file changes between calls
ValFileChange ==
  /\ \E f \in ValidateFiles : idFile' = f /\ f # idFile
  /\ UNCHANGED << hw, idRes, outsideIdentity >>

NextValidate == IdValidate \/ ValFileChange \/ IdHwChange

SpecValidate == InitValidate /\ [][NextValidate]_vars

(***************************************************************************)
(* github.com/blang/semver/v4 as CheckForUpdates uses it                   *)
(* (pre-release and build suffixes are not among the tags drawn)           *)
(***************************************************************************)
RECURSIVE NumVal(_, _)
NumVal(s, acc) ==
  IF s = << >> THEN acc
  ELSE NumVal(Tail(s), acc * 10 + (CharCode(Head(s)) - CharCode("0")))

\* containsOnly(numbers), no leading zeroes, ParseUint
IsNumber(s) ==
  /\ s # << >>
  /\ \A i \in 1..Len(s) : s[i] \in DecDigits
  /\ ~(Len(s) > 1 /\ s[1] = "0")

ZeroVersion == [major |-> 0, minor |-> 0, patch |-> 0]

\* semver.Make: strings.SplitN(s, ".", 3), each part a number; every error
\* returns the zero Version together with the error
semverMake(s) ==
  LET parts == Split(s, ".")
      patchStr == Join(SubSeq(parts, 3, Len(parts)), << "." >>)
  IN  IF Len(s) = 0 \/ Len(parts) < 3 THEN [v |-> ZeroVersion, err |-> TRUE]
      ELSE IF ~IsNumber(parts[1]) \/ ~IsNumber(parts[2]) \/ ~IsNumber(patchStr)
        THEN [v |-> ZeroVersion, err |-> TRUE]
      ELSE [v |-> [major |-> NumVal(parts[1], 0), minor |-> NumVal(parts[2], 0),
                   patch |-> NumVal(patchStr, 0)],
            err |-> FALSE]

\* Version.GT
GT(a, b) ==
  \/ a.major > b.major
  \/ a.major = b.major /\ a.minor > b.minor
  \/ a.major = b.major /\ a.minor = b.minor /\ a.patch > b.patch

(***************************************************************************)
(* Update engine (internal: CheckForUpdates, updateBinary)                 *)
(***************************************************************************)
ReleaseTags == { V010, V020, V0100, VPrefixed020, BadTag, << >> }

\* what the release API may answer: transport error, undecodable body, or a
\* release with a tag and a number of assets
ReleaseResponses ==
  { [transport |-> FALSE, decodable |-> FALSE, tag |-> << >>, assets |-> 0],
    [transport |-> TRUE, decodable |-> FALSE, tag |-> << >>, assets |-> 0] }
  \cup { [transport |-> TRUE, decodable |-> TRUE, tag |-> t, assets |-> n] :
           t \in ReleaseTags, n \in 0..1 }

\* LoadConfig of the internal package: no defaulting, no required fields
LoadConfig(f) ==
  IF ~f.readable THEN [err |-> "read", AutoUpdate |-> FALSE, CurrentVer |-> << >>]
  ELSE IF ~f.json THEN [err |-> "parse", AutoUpdate |-> FALSE, CurrentVer |-> << >>]
  ELSE [err |-> "nil", AutoUpdate |-> f.auto_update, CurrentVer |-> f.current_version]

\* a check that fetches the release before it looks at the auto_update gate
CheckForUpdates_GateAfterFetch(cfg, resp) ==
  IF ~resp.transport THEN "fetch_error"
  ELSE IF ~resp.decodable THEN "decode_error"
  ELSE IF ~cfg.AutoUpdate THEN "disabled"
  ELSE LET current == semverMake(cfg.CurrentVer).v
           latest == semverMake(resp.tag).v
       IN  IF GT(latest, current)
             THEN IF resp.assets = 0 THEN "panic" ELSE "update"
             ELSE "no_update"

\* the body of CheckForUpdates up to the call of updateBinary:
\* "disabled", "fetch_error", "decode_error", "no_update" return to the
\* caller, "update" calls updateBinary, "panic" is rel.Assets[0] on an empty
\* slice (index out of range), which no one recovers
CheckForUpdates(cfg, resp) ==
  IF ~cfg.AutoUpdate THEN "disabled"
  ELSE IF ~resp.transport THEN "fetch_error"
  ELSE IF ~resp.decodable THEN "decode_error"
  ELSE LET current == semverMake(cfg.CurrentVer).v
           latest == semverMake(resp.tag).v
       IN  IF GT(latest, current)
             THEN IF resp.assets = 0 THEN "panic" ELSE "update"
             ELSE "no_update"

EngineConfigs ==
  { Config(Token1, Endpoint1, v, au) : v \in { V010, V020, BadTag, << >> }, au \in BOOLEAN }

InitEngine ==
  /\ idFile = NoFile
  /\ hw = HostFull
  /\ idRes = NoCall
  /\ cfgFile \in EngineConfigs
  /\ AgentIdle
  /\ CommandsIdle
  /\ binPath = Bin(cfgFile.current_version) /\ binExec = TRUE /\ svc = "active"
  /\ EngineIdle
  /\ ScriptIdle

Step(name, ok) == [step |-> name, ok |-> ok]

\* CheckForUpdates(cfg) with the configuration as persisted
EngCheck ==
  /\ engPc = "idle"
  /\ engChecks < MaxChecks
  /\ LoadConfig(cfgFile).err = "nil"
  /\ \E resp \in ReleaseResponses :
       LET cfg == LoadConfig(cfgFile)
           out == CheckForUpdates(cfg, resp)
       IN  /\ engOutcome' = out
           /\ engCur' = cfg.CurrentVer
           /\ engTag' = IF out \in { "no_update", "update", "panic" } THEN resp.tag ELSE << >>
           /\ engPc' = IF out = "update" THEN "download"
                       ELSE IF out = "panic" THEN "crashed" ELSE "idle"
  /\ engChecks' = engChecks + 1
  /\ engSteps' = << >>
  /\ UNCHANGED << outsideEngine, fsVars, engTmp >>

\* a download step that goes on to the rename with whatever curl left behind
EngDownload_FailOpen ==
  /\ engPc = "download"
  /\ \E ok \in BOOLEAN :
       /\ engSteps' = Append(engSteps, Step("download", ok))
       /\ IF ok
            THEN engTmp' = Bin(engTag) /\ engPc' = "rename"
            ELSE engTmp' \in { engTmp, PartialBin(engTag, 1) } /\ engPc' = "rename"
  /\ UNCHANGED << outsideEngine, fsVars, engCur, engTag, engOutcome, engChecks >>

\* curl -fsSL -o /tmp/certfix-agent url; a failed transfer may leave a partial file
EngDownload ==
  /\ engPc = "download"
  /\ \E ok \in BOOLEAN :
       /\ engSteps' = Append(engSteps, Step("download", ok))
       /\ IF ok
            THEN engTmp' = Bin(engTag) /\ engPc' = "rename"
            ELSE engTmp' \in { engTmp, PartialBin(engTag, 1) } /\ engPc' = "idle"
  /\ UNCHANGED << outsideEngine, fsVars, engCur, engTag, engOutcome, engChecks >>

\* os.Rename(tmp, BinaryPath): the path switches to the downloaded file, which
\* curl created without the executable bit
EngRename ==
  /\ engPc = "rename"
  /\ \E ok \in BOOLEAN :
       /\ engSteps' = Append(engSteps, Step("rename", ok))
       /\ IF ok
            THEN /\ binPath' = engTmp
                 /\ binExec' = FALSE
                 /\ engTmp' = NoBin
                 /\ engPc' = "chmod"
            ELSE /\ engPc' = "idle"
                 /\ UNCHANGED << binPath, binExec, engTmp >>
  /\ UNCHANGED << outsideEngine, svc, engCur, engTag, engOutcome, engChecks >>

\* os.Chmod(BinaryPath, 0755): a failure is logged and the function goes on
EngChmod ==
  /\ engPc = "chmod"
  /\ \E ok \in BOOLEAN :
       /\ engSteps' = Append(engSteps, Step("chmod", ok))
       /\ binExec' = IF ok THEN TRUE ELSE binExec
  /\ engPc' = "restart"
  /\ UNCHANGED << outsideEngine, binPath, svc, engCur, engTag, engOutcome,
                  engTmp, engChecks >>

\* systemctl restart certfix-agent, result ignored; the service can only come
\* up on a complete executable binary, and a failed restart leaves it as it
\* was or stopped
EngRestart ==
  /\ engPc = "restart"
  /\ \E ok \in BOOLEAN :
       /\ engSteps' = Append(engSteps, Step("restart", ok))
       /\ IF ok /\ binExec /\ Complete(binPath)
            THEN svc' = "active"
            ELSE svc' \in { svc, "inactive" }
  /\ engPc' = "idle"
  /\ UNCHANGED << outsideEngine, binPath, binExec, engCur, engTag, engOutcome,
                  engTmp, engChecks >>

NextEngine == EngCheck \/ EngDownload \/ EngRename \/ EngChmod \/ EngRestart

SpecEngine == InitEngine /\ [][NextEngine]_vars

(***************************************************************************)
(* Update script (update.sh).  The script runs as root under "set -e";     *)
(* /tmp and the install directory are taken to be one filesystem, so mv    *)
(* is a rename.                                                            *)
(***************************************************************************)
UnknownStr == << "u", "n", "k", "n", "o", "w", "n" >>

\* ${version#v}
StripV(s) == IF s # << >> /\ Head(s) = "v" THEN Tail(s) ELSE s

AllDigits(s) == s # << >> /\ \A i \in 1..Len(s) : s[i] \in DecDigits

\* dot-separated numbers, as release tags are once the v is stripped
IsDotted(s) == \A i \in 1..Len(Split(s, ".")) : AllDigits(Split(s, ".")[i])

RECURSIVE NumsLess(_, _)
NumsLess(a, b) ==
  IF b = << >> THEN FALSE
  ELSE IF a = << >> THEN TRUE
  ELSE IF NumVal(Head(a), 0) = NumVal(Head(b), 0) THEN NumsLess(Tail(a), Tail(b))
  ELSE NumVal(Head(a), 0) < NumVal(Head(b), 0)

\* a comes strictly first under sort -V: numbers compare by value, a string
\* starting with a number comes before one starting with a letter
SortVLess(a, b) ==
  IF IsDotted(a) /\ IsDotted(b) THEN NumsLess(Split(a, "."), Split(b, "."))
  ELSE IF IsDotted(a) THEN TRUE
  ELSE IF IsDotted(b) THEN FALSE
  ELSE StrLess(a, b)

\* version_greater_than: the first line of sort -V is not version1
version_greater_than(version1, version2) ==
  StripV(version1) # StripV(version2) /\ SortVLess(StripV(version2), StripV(version1))

\* "certfix-agent --version": agent.go prints its usage, headed by
\* "CertFix Agent v<current_version of loadConfig, else 0.0.0>"; the script
\* greps v[0-9]+.[0-9]+.[0-9]+ out of it
BinaryVersionLine(cfg) ==
  LET ver == IF loadConfig(cfg).err = "nil" THEN loadConfig(cfg).cfg.current_version
             ELSE DEFAULT_VERSION
  IN  IF IsDotted(ver) /\ Len(Split(ver, ".")) = 3 THEN << "v" >> \o ver ELSE << >>

\* get_current_version: the config value unless empty or 0.0.1, else what the
\* binary reports, else "unknown"
get_current_version(cfg, bin, exec) ==
  LET version == IF cfg.readable /\ cfg.json THEN cfg.current_version ELSE << >>
      reported == IF Complete(bin) /\ exec THEN BinaryVersionLine(cfg) ELSE << >>
  IN  IF cfg.readable /\ version # << >> /\ version # V001 THEN version
      ELSE IF bin.present /\ reported # << >> THEN reported
      ELSE UnknownStr

\* get_latest_version: the tag_name grepped out of the API answer, empty on failure
get_latest_version(resp) ==
  IF resp.transport /\ resp.decodable THEN resp.tag ELSE << >>

\* update_config_version: jq sets the key, sed rewrites it where it occurs;
\* "failed" is jq rejecting a file that is not JSON, which ends the script
update_config_version(cfg, new_version, jq) ==
  IF ~cfg.readable THEN [failed |-> FALSE, cfg |-> cfg]
  ELSE IF jq
    THEN IF cfg.json THEN [failed |-> FALSE, cfg |-> [cfg EXCEPT !.current_version = new_version]]
         ELSE [failed |-> TRUE, cfg |-> cfg]
    ELSE IF cfg.json /\ cfg.current_version # << >>
      THEN [failed |-> FALSE, cfg |-> [cfg EXCEPT !.current_version = new_version]]
      ELSE [failed |-> FALSE, cfg |-> cfg]

KeepBackups == 5

\* ls -t | tail -n +6 | xargs rm -f
PruneBackups(bs) == SubSeq(bs, 1, IF Len(bs) < KeepBackups THEN Len(bs) ELSE KeepBackups)

ScriptConfigs ==
  { NoConfig, GarbledConfig } \cup
  { Config(Token1, Endpoint1, v, FALSE) : v \in { V001, V010, BadTag } }

\* what the backup directory holds when a run begins: nothing, or the
\* backups earlier runs have left, newest first
BackupDirs == { << >>, [i \in 1..KeepBackups |-> Bin(V001)] }

InitScript ==
  /\ idFile = NoFile
  /\ hw = HostFull
  /\ idRes = NoCall
  /\ cfgFile \in ScriptConfigs
  /\ AgentIdle
  /\ CommandsIdle
  /\ binPath = Bin(IF cfgFile.json THEN cfgFile.current_version ELSE V010)
  /\ binExec = TRUE
  /\ svc \in { "active", "inactive" }
  /\ EngineIdle
  /\ scrPc = "idle"
  /\ scrCur = << >>
  /\ scrLatest = << >>
  /\ scrTmp = NoBin
  /\ backups \in BackupDirs
  /\ wasRunning = FALSE
  /\ scrWhy = "none"
  /\ scrPrev = NoBin
  /\ scrOps = << >>
  /\ scrExit = -1
  /\ scrRuns = 0

Exit(code) == scrPc' = "idle" /\ scrExit' = code

\* main up to the download: installed check, versions, comparison, confirmation
ScrBegin ==
  /\ scrPc = "idle"
  /\ scrRuns < MaxRuns
  /\ scrRuns' = scrRuns + 1
  /\ scrOps' = << >>
  /\ scrWhy' = "none"
  /\ scrPrev' = binPath
  /\ \E resp \in ReleaseResponses, confirm \in BOOLEAN :
       LET cur == get_current_version(cfgFile, binPath, binExec)
           latest == get_latest_version(resp)
       IN  IF ~binPath.present
             THEN Exit(1) /\ UNCHANGED << scrCur, scrLatest >>
           ELSE IF latest = << >>
             THEN Exit(1) /\ scrCur' = cur /\ UNCHANGED scrLatest
           ELSE /\ scrCur' = cur
                /\ scrLatest' = latest
                /\ IF cur = latest THEN Exit(0)
                   ELSE IF cur # UnknownStr /\ ~version_greater_than(latest, cur) THEN Exit(0)
                   ELSE IF ~confirm THEN Exit(0)
                   ELSE scrPc' = "download" /\ UNCHANGED scrExit
  /\ UNCHANGED << outsideScript, cfgFile, fsVars, scrTmp, backups, wasRunning >>

\* curl to /tmp/certfix-agent-new, size check, chmod +x, --help / --version test
ScrDownload ==
  /\ scrPc = "download"
  /\ \E ok \in BOOLEAN, testOk \in BOOLEAN, force \in BOOLEAN :
       IF ~ok
         THEN /\ scrTmp' \in { scrTmp, PartialBin(scrLatest, 1) }
              /\ Exit(1)
         ELSE IF testOk \/ force
           THEN scrTmp' = Bin(scrLatest) /\ scrPc' = "backup" /\ UNCHANGED scrExit
           ELSE scrTmp' = NoBin /\ Exit(1)
  /\ UNCHANGED << outsideScript, cfgFile, fsVars, scrCur, scrLatest, backups, wasRunning,
                  scrWhy, scrPrev, scrOps, scrRuns >>

\* backup_binary, then the stop of the service if it is active
ScrBackupAndStop ==
  /\ scrPc = "backup"
  /\ backups' = IF binPath.present THEN << binPath >> \o backups ELSE backups
  /\ wasRunning' = (svc = "active")
  /\ svc' = "inactive"
  /\ scrOps' = scrOps \o (IF binPath.present THEN << "backup" >> ELSE << >>)
                      \o (IF svc = "active" THEN << "stop" >> ELSE << >>)
  /\ scrPc' = "replace"
  /\ UNCHANGED << outsideScript, cfgFile, binPath, binExec, scrCur, scrLatest, scrTmp,
                  scrWhy, scrPrev, scrExit, scrRuns >>

\* a replacement step that records the new version although mv failed
ScrReplace_BumpOnFailure ==
  /\ scrPc = "replace"
  /\ \E ok \in BOOLEAN :
       IF ok
         THEN /\ binPath' = scrTmp
              /\ binExec' = TRUE
              /\ scrTmp' = NoBin
              /\ scrOps' = Append(scrOps, "replace")
              /\ scrPc' = "config"
              /\ UNCHANGED << scrWhy, cfgFile >>
         ELSE /\ scrWhy' = "replace"
              /\ scrOps' = Append(scrOps, "rollback")
              /\ scrPc' = "rollback"
              /\ cfgFile' = update_config_version(cfgFile, scrLatest, TRUE).cfg
              /\ UNCHANGED << binPath, binExec, scrTmp >>
  /\ UNCHANGED << outsideScript, svc, scrCur, scrLatest, backups, wasRunning,
                  scrPrev, scrExit, scrRuns >>

\* mv "$TEMP_BINARY" "$BIN_PATH", or rollback when it fails
ScrReplace ==
  /\ scrPc = "replace"
  /\ \E ok \in BOOLEAN :
       IF ok
         THEN /\ binPath' = scrTmp
              /\ binExec' = TRUE
              /\ scrTmp' = NoBin
              /\ scrOps' = Append(scrOps, "replace")
              /\ scrPc' = "config"
              /\ UNCHANGED scrWhy
         ELSE /\ scrWhy' = "replace"
              /\ scrOps' = Append(scrOps, "rollback")
              /\ scrPc' = "rollback"
              /\ UNCHANGED << binPath, binExec, scrTmp >>
  /\ UNCHANGED << outsideScript, cfgFile, svc, scrCur, scrLatest, backups, wasRunning,
                  scrPrev, scrExit, scrRuns >>

\* update_config_version "$LATEST_VERSION"
ScrUpdateConfig ==
  /\ scrPc = "config"
  /\ \E jq \in BOOLEAN :
       LET r == update_config_version(cfgFile, scrLatest, jq)
       IN  IF r.failed
             THEN Exit(1) /\ UNCHANGED << cfgFile, scrOps >>
             ELSE /\ cfgFile' = r.cfg
                  /\ scrOps' = Append(scrOps, "config")
                  /\ scrPc' = IF wasRunning THEN "start" ELSE "finish"
                  /\ UNCHANGED scrExit
  /\ UNCHANGED << outsideScript, fsVars, scrCur, scrLatest, scrTmp, backups, wasRunning,
                  scrWhy, scrPrev, scrRuns >>

\* systemctl start, or rollback when it fails
ScrStart ==
  /\ scrPc = "start"
  /\ \E ok \in BOOLEAN :
       IF ok /\ binExec /\ Complete(binPath)
         THEN /\ svc' = "active"
              /\ scrOps' = Append(scrOps, "start")
              /\ scrPc' = "health"
              /\ UNCHANGED scrWhy
         ELSE /\ svc' = "inactive"
              /\ scrWhy' = "start"
              /\ scrOps' = scrOps \o << "start", "rollback" >>
              /\ scrPc' = "rollback"
  /\ UNCHANGED << outsideScript, cfgFile, binPath, binExec, scrCur, scrLatest, scrTmp,
                  backups, wasRunning, scrPrev, scrExit, scrRuns >>

\* sleep 2; systemctl is-active, or rollback when the service is gone
ScrHealth ==
  /\ scrPc = "health"
  /\ \E alive \in BOOLEAN :
       IF alive
         THEN /\ scrOps' = Append(scrOps, "healthy")
              /\ scrPc' = "finish"
              /\ UNCHANGED << svc, scrWhy >>
         ELSE /\ svc' = "inactive"
              /\ scrWhy' = "health"
              /\ scrOps' = Append(scrOps, "rollback")
              /\ scrPc' = "rollback"
  /\ UNCHANGED << outsideScript, cfgFile, binPath, binExec, scrCur, scrLatest, scrTmp,
                  backups, wasRunning, scrPrev, scrExit, scrRuns >>

\* rollback: the newest backup, and cp opening the install path for writing,
\* which truncates it; without a backup the script gives up
ScrRollbackOpen ==
  /\ scrPc = "rollback"
  /\ IF backups = << >>
       THEN Exit(1) /\ UNCHANGED binPath
       ELSE /\ binPath' = PartialBin(Head(backups).ver, 0)
            /\ scrPc' = "rb_copy"
            /\ UNCHANGED scrExit
  /\ UNCHANGED << outsideScript, cfgFile, binExec, svc, scrCur, scrLatest, scrTmp, backups,
                  wasRunning, scrWhy, scrPrev, scrOps, scrRuns >>

\* cp writes the next block of the backup
ScrRollbackWrite ==
  /\ scrPc = "rb_copy"
  /\ binPath.len < Head(backups).len
  /\ binPath' = [binPath EXCEPT !.len = @ + 1]
  /\ UNCHANGED << outsideScript, cfgFile, binExec, svc, scrVars >>

\* cp is done: chmod +x, systemctl restart || true, and main exits 1
ScrRollbackRestart ==
  /\ scrPc = "rb_copy"
  /\ binPath.len = Head(backups).len
  /\ binExec' = TRUE
  /\ \E ok \in BOOLEAN :
       IF ok /\ Complete(binPath) THEN svc' = "active" ELSE svc' \in { svc, "inactive" }
  /\ scrOps' = Append(scrOps, "restart")
  /\ Exit(1)
  /\ UNCHANGED << outsideScript, cfgFile, binPath, scrCur, scrLatest, scrTmp, backups,
                  wasRunning, scrWhy, scrPrev, scrRuns >>

\* cleanup and pruning of old backups; the script ends with status 0
ScrFinish ==
  /\ scrPc = "finish"
  /\ scrTmp' = NoBin
  /\ backups' = PruneBackups(backups)
  /\ Exit(0)
  /\ UNCHANGED << outsideScript, cfgFile, fsVars, scrCur, scrLatest, wasRunning, scrWhy,
                  scrPrev, scrOps, scrRuns >>

NextScript ==
  \/ ScrBegin
  \/ ScrDownload
  \/ ScrBackupAndStop
  \/ ScrReplace
  \/ ScrUpdateConfig
  \/ ScrStart
  \/ ScrHealth
  \/ ScrRollbackOpen
  \/ ScrRollbackWrite
  \/ ScrRollbackRestart
  \/ ScrFinish

SpecScript == InitScript /\ [][NextScript]_vars

(***************************************************************************)
(* A "configure" command and the version bump of an update running as two  *)
(* processes on the same config.json: each reads the file and later        *)
(* replaces it, and nothing locks the file                                 *)
(***************************************************************************)
RaceConfigs ==
  { Config(Token1, Endpoint1, V010, FALSE), Config(Token1, Endpoint1, V001, TRUE) }

InitRace ==
  /\ idFile = NoFile
  /\ hw = HostFull
  /\ idRes = NoCall
  /\ cfgFile \in RaceConfigs
  /\ AgentIdle
  /\ CommandsIdle
  /\ binPath = Bin(V010) /\ binExec = TRUE /\ svc = "inactive"
  /\ EngineIdle
  /\ ScriptIdle

\* handleConfigure up to the Config it is about to save: the flags are not
\* empty, loadConfig has read the file and the version to keep is chosen
RaceConfigureLoad ==
  /\ cfgCmd.pc = "idle"
  /\ cfgCmd.runs < MaxConfigures
  /\ \E token \in { Token1, Token2 }, endpoint \in { Endpoint1 } :
       LET existingConfig == loadConfig(cfgFile)
           version == IF existingConfig.err = "nil"
                           /\ existingConfig.cfg.current_version # << >>
                        THEN existingConfig.cfg.current_version
                        ELSE DEFAULT_VERSION
       IN  cfgCmd' = [cfgCmd EXCEPT !.pc = "loaded", !.token = token,
                                    !.endpoint = endpoint, !.version = version,
                                    !.runs = @ + 1,
                                    !.overlapped = @ \/ bumpCmd.pc = "read"]
  /\ UNCHANGED << idVars, cfgFile, valRes, cfgRes, bumpCmd, agentVars, fsVars, engVars,
                  scrVars >>

\* saveConfig of the Config built from what was loaded
RaceConfigureSave ==
  /\ cfgCmd.pc = "loaded"
  /\ \E outcome \in { "ok", "write", "chmod" } :
       LET saved == saveConfig(cfgFile, [token |-> cfgCmd.token, endpoint |-> cfgCmd.endpoint,
                                        current_version |-> cfgCmd.version], outcome)
       IN  /\ cfgFile' = saved.file
           /\ cfgCmd' = [cfgCmd EXCEPT !.pc = "idle",
                                        !.written = @ \/ saved.err # "write",
                                        !.token = IF saved.err # "write" THEN @
                                                  ELSE cfgFile.token]
  /\ UNCHANGED << idVars, valRes, cfgRes, bumpCmd, agentVars, fsVars, engVars, scrVars >>

\* update_config_version up to its mv: jq or sed has read config.json and
\* written the rewritten content to $temp_file; without the file nothing is
\* done, and a failing jq ends the script
RaceBumpRead ==
  /\ bumpCmd.pc = "idle"
  /\ bumpCmd.runs < MaxBumps
  /\ \E new_version \in { V020, V0100 }, jq \in BOOLEAN :
       LET r == update_config_version(cfgFile, new_version, jq)
       IN  bumpCmd' = IF ~cfgFile.readable \/ r.failed
                        THEN [bumpCmd EXCEPT !.runs = @ + 1]
                        ELSE [bumpCmd EXCEPT !.pc = "read", !.temp_file = r.cfg,
                                             !.new_version = new_version, !.runs = @ + 1]
  /\ cfgCmd' = [cfgCmd EXCEPT !.overlapped = @ \/ cfgCmd.pc = "loaded"]
  /\ UNCHANGED << idVars, cfgFile, valRes, cfgRes, agentVars, fsVars, engVars, scrVars >>

\* mv "$temp_file" "$CONFIG_FILE"; chmod 600
RaceBumpMove ==
  /\ bumpCmd.pc = "read"
  /\ cfgFile' = bumpCmd.temp_file
  /\ bumpCmd' = [bumpCmd EXCEPT !.pc = "idle", !.moved = TRUE]
  /\ UNCHANGED << idVars, valRes, cfgRes, cfgCmd, agentVars, fsVars, engVars, scrVars >>

NextRace == RaceConfigureLoad \/ RaceConfigureSave \/ RaceBumpRead \/ RaceBumpMove

SpecRace == InitRace /\ [][NextRace]_vars

(***************************************************************************)
(* Properties                                                              *)
(***************************************************************************)

\* C1: N failed Register calls followed by a success give exactly one
\* successful registration and exactly N completed back-off waits, one before
\* each retry, and no failure ends the process (the process only ever exits
\* before its first Register call).
C1_RetryNeverGivesUp ==
  /\ agentPc = "registered" => regOK = 1 /\ regCalls = regFails + 1 /\ sleeps = regFails
  /\ agentPc = "register" => regOK = 0 /\ regCalls = regFails /\ sleeps = regFails
  /\ agentPc = "backoff" => regOK = 0 /\ regCalls = regFails /\ sleeps = regFails - 1
  /\ agentPc = "exited" => regCalls = 0

W_C1_RegisteredAfterMaxFailures ==
  agentPc = "registered" /\ regFails = MaxFail /\ sleeps = MaxFail

\* C8: Registered is terminal: once registered the agent stays registered,
\* makes no further Register call and keeps its instance id, whatever the
\* heartbeats answer.
C8_RegisteredIsTerminal ==
  [][agentPc = "registered" =>
       /\ agentPc' = "registered"
       /\ regCalls' = regCalls
       /\ instanceID' = instanceID]_vars

W_C8_RegisteredWithFailedHeartbeat ==
  agentPc = "registered" /\ hbFailed > 0 /\ hbSent >= 2

\* C9: a heartbeat failure changes nothing: every step that sends sends
\* exactly one request, consumes one tick and leaves the agent registered, so
\* the number of requests equals the number of ticks taken from the ticker,
\* failed or not.
C9_HeartbeatFailureChangesNothing ==
  /\ [](hbSent + tickChan = ticks)
  /\ [][hbSent' # hbSent =>
          /\ hbSent' = hbSent + 1
          /\ tickChan = 1 /\ tickChan' = 0
          /\ agentPc = "registered" /\ agentPc' = "registered"]_vars

W_C9_TickAfterFailedHeartbeat ==
  agentPc = "registered" /\ hbFailed >= 1 /\ hbSent > hbFailed /\ hbSent = ticks

IsHex64(f) ==
  f.ok /\ Len(f.data) = IdLen /\ \A i \in 1..Len(f.data) : IsHexChar(f.data[i])

AnySignal(h) ==
  \/ getSystemUUID(h) # << >>
  \/ getMACAddresses(h) # << >>
  \/ getOSMachineID(h) # << >>
  \/ getCPUInfo(h) # << >>
  \/ getBootID(h) # << >>

\* C6: GenerateMachineID returns the persisted content unchanged exactly when
\* the file exists and holds exactly 64 hex characters; for any other content
\* the result is the one derived from the hardware signals.
C6_PersistedOnlyIfHex64 ==
  idRes.called =>
    IF IsHex64(idRes.fileBefore)
      THEN idRes.err = "nil" /\ idRes.id = idRes.fileBefore.data
      ELSE LET g == generateFromHardware(idRes.hwBefore)
           IN  IF g.err = "nil" THEN idRes.err = "nil" /\ idRes.id = g.id
               ELSE idRes.err = "no_signals"

\* C7 as stated: GenerateMachineID succeeds if and only if at least one of
\* the five signals is obtainable.
C7_SucceedsIffSignal ==
  idRes.called => (idRes.err = "nil" <=> AnySignal(idRes.hwBefore))

\* C7 amended: when the loader accepts the persisted file its content is
\* returned whatever the signals; otherwise GenerateMachineID returns a
\* 64-character identifier if and only if at least one of the five signals is
\* obtainable and fails with the no-signals error otherwise.
C7_SucceedsIffSignalOrStored ==
  idRes.called =>
    IF loadStoredMachineID(idRes.fileBefore).err = "nil"
      THEN idRes.err = "nil" /\ idRes.id = TrimSpace(idRes.fileBefore.data)
      ELSE /\ idRes.err = "nil" <=> AnySignal(idRes.hwBefore)
           /\ idRes.err = "nil" => Len(idRes.id) = IdLen
           /\ idRes.err # "nil" => idRes.err = "no_signals" /\ idRes.id = << >>

W_C7_NoSignalsNoStored ==
  /\ idRes.called
  /\ loadStoredMachineID(idRes.fileBefore).err # "nil"
  /\ ~AnySignal(idRes.hwBefore)
  /\ idRes.err = "no_signals"

UpdateStarted ==
  engPc \in { "download", "rename", "chmod", "restart" } \/ engSteps # << >>

\* C2: a check whose current version or latest tag does not parse as a
\* semantic version performs no download and no swap.
C2_MalformedNeverUpdates ==
  UpdateStarted => ~semverMake(engCur).err /\ ~semverMake(engTag).err

SwapOrder == << "download", "rename", "chmod", "restart" >>

\* C5: the swap steps run in the order download, rename, chmod, restart, and
\* no step runs after a failed one.
C5_SwapAbortsOnFailure ==
  /\ \A i \in 1..Len(engSteps) : engSteps[i].step = SwapOrder[i]
  /\ \A i \in 1..(Len(engSteps) - 1) : engSteps[i].ok

\* C10: CheckForUpdates always returns to its caller; no outcome of the
\* release fetch terminates the process.
C10_CheckNeverCrashes ==
  engOutcome # "panic" /\ engPc # "crashed"

ScriptEnded == scrPc = "idle" /\ scrRuns > 0

\* C3: the install path never holds a truncated or partially written binary,
\* neither during an update nor during a rollback.
C3_InstallPathAlwaysComplete ==
  binPath.present => Complete(binPath)

\* C4: when the health check fails after a successful replacement, the script
\* ends with the install path holding what it held before the update, equal
\* to the newest backup, and with the service active.
C4_RollbackRestoresAndRestarts ==
  ScriptEnded /\ scrWhy = "health" =>
    /\ binPath = scrPrev
    /\ binPath = Head(backups)
    /\ svc = "active"


\* C11: the persisted current_version changes only in a step that follows the
\* successful replacement of the same run, and then becomes the new release
\* tag; a run whose download or replacement failed never changes it.
C11_VersionBumpFollowsReplace ==
  [][cfgFile' # cfgFile =>
       /\ scrOps # << >> /\ scrOps[Len(scrOps)] = "replace"
       /\ binPath = Bin(scrLatest)
       /\ cfgFile'.current_version = scrLatest
       /\ cfgFile' = [cfgFile EXCEPT !.current_version = scrLatest]]_vars

W_C11_BumpedAfterReplace ==
  /\ \E i \in 1..(Len(scrOps) - 1) : scrOps[i] = "replace" /\ scrOps[i + 1] = "config"
  /\ cfgFile.json /\ cfgFile.current_version = scrLatest
  /\ scrCur # scrLatest


\* C12: whenever an update replaces the binary at the install path (a step
\* other than a rollback that changes it), the newest entry of the backup
\* directory is a copy of the binary that was installed until then.
C12_BackupPrecedesReplacement ==
  [][binPath' # binPath /\ scrPc \notin { "rollback", "rb_copy" } =>
       backups # << >> /\ Head(backups) = binPath]_vars


EngReplaced == \E i \in 1..Len(engSteps) : engSteps[i] = Step("rename", TRUE)

\* C13: an update that replaced the installed binary ends either with the
\* service active or with the replacement rolled back (the install path no
\* longer holding the downloaded binary).
C13_ReplacedThenHealthyOrRolledBack ==
  engPc = "idle" /\ EngReplaced => svc = "active" \/ binPath # Bin(engTag)


\* C14: a failed transfer ends the update attempt at once: the step that
\* fails leaves the install path, its permission bits and the service as
\* they were, and the attempt performs no further step (no rename, no
\* permission change, no restart; in the script no backup, stop or start).
C14_DownloadFailsClosed ==
  /\ [](engSteps # << >> /\ ~engSteps[1].ok => Len(engSteps) = 1 /\ engPc = "idle")
  /\ [][engPc = "download" /\ engSteps' = Append(engSteps, Step("download", FALSE)) =>
          engPc' = "idle" /\ UNCHANGED << fsVars, cfgFile, backups >>]_vars
  /\ [][scrPc = "download" /\ scrPc' = "idle" =>
          scrExit' = 1 /\ scrOps' = scrOps /\ UNCHANGED << fsVars, cfgFile, backups >>]_vars

W_C14_FailedDownloadLeftPartialFile ==
  /\ engSteps = << Step("download", FALSE) >>
  /\ engPc = "idle"
  /\ engTmp = PartialBin(engTag, 1)
  /\ binPath = Bin(engCur) /\ binExec /\ svc = "active"


\* C15: with auto_update false every check returns at the gate whatever the
\* release API would answer: nothing of a release is read, no swap step is
\* taken, and the install path, its permission bits, the temporary file and
\* the service stay as they were.
C15_DisabledIsNoOp ==
  ~LoadConfig(cfgFile).AutoUpdate =>
    /\ \A resp \in ReleaseResponses : CheckForUpdates(LoadConfig(cfgFile), resp) = "disabled"
    /\ engChecks > 0 => engOutcome = "disabled"
    /\ engPc = "idle" /\ engSteps = << >> /\ engTag = << >>
    /\ binPath = Bin(cfgFile.current_version) /\ binExec /\ svc = "active"
    /\ engTmp = NoBin

W_C15_CheckedWhileDisabled ==
  /\ ~cfgFile.auto_update
  /\ engChecks = MaxChecks
  /\ engOutcome = "disabled"
  /\ cfgFile.current_version = V010


\* C16: once a release has been fetched and both the current version and the
\* latest tag parse, the download and swap are started if and only if latest
\* is strictly greater than current in semantic-version order.
C16_UpdateIffStrictlyGreater ==
  /\ engOutcome \in { "no_update", "update", "panic" }
  /\ ~semverMake(engCur).err /\ ~semverMake(engTag).err
  => (UpdateStarted <=> GT(semverMake(engTag).v, semverMake(engCur).v))


\* C17: between runs, whatever way the runs ended, the backup directory
\* holds at most KeepBackups backups.
C17_BackupsBounded ==
  scrPc = "idle" => Len(backups) <= KeepBackups


Signals(h) ==
  << getSystemUUID(h), Join(getMACAddresses(h), Comma), getOSMachineID(h), getCPUInfo(h),
     getBootID(h) >>

NonEmptyText(t) == t # << >>

HashedInput(h) == Join(SelectSeq(Signals(h), NonEmptyText), Delimiter)

\* C18: a derivation from hardware hashes exactly the non-empty signals in
\* the order platform UUID, MAC list, OS machine-id, CPU id, boot id, joined
\* by the delimiter; the result has 64 hex characters, and every host with
\* the same signal values yields the same identifier.
C18_DerivationDeterministic ==
  /\ idRes.called
  /\ loadStoredMachineID(idRes.fileBefore).err # "nil"
  /\ AnySignal(idRes.hwBefore)
  => /\ idRes.err = "nil"
     /\ idRes.id = Sha256Hex(HashedInput(idRes.hwBefore))
     /\ IsHex64(File(idRes.id))
     /\ \A h \in Hosts :
          Signals(h) = Signals(idRes.hwBefore) => generateFromHardware(h).id = idRes.id

W_C18_AllFiveSignalsOtherOrder ==
  /\ idRes.called
  /\ loadStoredMachineID(idRes.fileBefore).err # "nil"
  /\ idRes.hwBefore = HostReordered
  /\ Len(SelectSeq(Signals(idRes.hwBefore), NonEmptyText)) = Len(Signals(idRes.hwBefore))
  /\ idRes.id = generateFromHardware(HostFull).id


\* C19: when the identity has to be derived and the write of the identity
\* file fails, GenerateMachineID still returns the identifier derived from
\* the hardware signals, with no error.
C19_StoreFailureStillReturnsId ==
  /\ idRes.called
  /\ loadStoredMachineID(idRes.fileBefore).err # "nil"
  /\ AnySignal(idRes.hwBefore)
  /\ ~idRes.writeOk
  => /\ idRes.err = "nil"
     /\ idRes.id = Sha256Hex(HashedInput(idRes.hwBefore))
     /\ Len(idRes.id) = IdLen

W_C19_DerivedWithoutFile ==
  /\ idRes.called
  /\ ~idRes.writeOk
  /\ loadStoredMachineID(idRes.fileBefore).err # "nil"
  /\ AnySignal(idRes.hwBefore)
  /\ idRes.err = "nil"
  /\ idFile = idRes.fileBefore /\ ~IsHex64(idFile)

\* C20: a call that finds a valid persisted identity (exactly 64 hex
\* characters) returns it whatever the hardware signals are by then and
\* leaves the file as it is; a call writes the file only when the loader
\* accepted no persisted value, and then writes the identifier it returns.
C20_PersistedIdentityIsStable ==
  idRes.called =>
    /\ IsHex64(idRes.fileBefore) =>
         /\ idRes.err = "nil"
         /\ idRes.id = idRes.fileBefore.data
         /\ idRes.fileAfter = idRes.fileBefore
    /\ loadStoredMachineID(idRes.fileBefore).err = "nil" => idRes.fileAfter = idRes.fileBefore
    /\ idRes.fileAfter # idRes.fileBefore =>
         /\ ~IsHex64(idRes.fileBefore)
         /\ idRes.err = "nil"
         /\ idRes.fileAfter = File(idRes.id)
         /\ IsHex64(idRes.fileAfter)

W_C20_StoredReturnedAfterHardwareChange ==
  /\ idRes.called
  /\ IsHex64(idRes.fileBefore)
  /\ idRes.id = idRes.fileBefore.data
  /\ idFile = idRes.fileBefore
  /\ \E h \in Hosts : h # idRes.hwBefore /\ generateFromHardware(h).id = idRes.id
  /\ generateFromHardware(idRes.hwBefore).err = "nil"
  /\ generateFromHardware(idRes.hwBefore).id # idRes.id


SameLetter(a, b) == ToLower(<< a >>) = ToLower(<< b >>)

StartsWithVirtualPrefix(mac) ==
  \E i \in 1..Len(virtualPrefixes) :
    /\ Len(mac) >= Len(virtualPrefixes[i])
    /\ \A k \in 1..Len(virtualPrefixes[i]) : SameLetter(mac[k], virtualPrefixes[i][k])

MacSamples == { PhysMacA, PhysMacB, VirtMac, VirtMacUpper }

AllNicsVirtual(h) ==
  /\ h.ifaces.ok
  /\ \E i \in 1..Len(h.ifaces.list) : ~h.ifaces.list[i].loopback
  /\ \A i \in 1..Len(h.ifaces.list) :
       ~h.ifaces.list[i].loopback => StartsWithVirtualPrefix(h.ifaces.list[i].mac)

\* C21: no address with a virtual prefix, in any letter case, is in the MAC
\* signal; on a host whose interfaces all carry virtual addresses the MAC
\* signal is absent, and a derivation there uses the remaining signals or
\* fails with the no-signals error when none remains.
C21_VirtualMacsFiltered ==
  /\ \A i \in 1..Len(getMACAddresses(hw)) : ~StartsWithVirtualPrefix(getMACAddresses(hw)[i])
  /\ \A m \in MacSamples : StartsWithVirtualPrefix(m) => isVirtualMAC(m)
  /\ AllNicsVirtual(hw) => getMACAddresses(hw) = << >>
  /\ idRes.called /\ loadStoredMachineID(idRes.fileBefore).err # "nil"
       /\ AllNicsVirtual(idRes.hwBefore) =>
         IF HashedInput(idRes.hwBefore) # << >>
           THEN idRes.err = "nil" /\ idRes.id = Sha256Hex(HashedInput(idRes.hwBefore))
           ELSE idRes.err = "no_signals" /\ idRes.id = << >>

W_C21_DerivedWithoutVirtualMac ==
  /\ idRes.called /\ loadStoredMachineID(idRes.fileBefore).err # "nil"
  /\ idRes.hwBefore = HostVirtualNics
  /\ AllNicsVirtual(idRes.hwBefore)
  /\ idRes.err = "nil"
  /\ idRes.id = Sha256Hex(getOSMachineID(HostVirtualNics))


\* C22: ValidateMachineID(stored) is true exactly when a signal is available
\* and the identifier derived from the current signals equals stored,
\* whatever the identity file holds; it leaves the file alone.
C22_ValidateIgnoresCache ==
  /\ [](valRes.called =>
         (valRes.result <=>
            /\ AnySignal(valRes.hwBefore)
            /\ valRes.storedID = Sha256Hex(HashedInput(valRes.hwBefore))))
  /\ [][valRes' # valRes => idFile' = idFile]_vars

W_C22_PersistedButHardwareChanged ==
  /\ valRes.called
  /\ valRes.fileBefore.ok /\ valRes.storedID = valRes.fileBefore.data
  /\ valRes.storedID = generateFromHardware(HostFull).id
  /\ valRes.hwBefore = HostRebooted
  /\ ~valRes.result


RequestsSent == regCalls + hbSent

\* C23: the agent is in the registration state machine, or has sent a
\* request, only with a config file that is readable JSON with non-empty
\* token and endpoint and with a machine identifier in its snapshot; a start
\* with a config error, or with neither a persisted identity nor a signal,
\* exits, and an agent that exited has sent no request.
C23_StartRequiresConfigAndIdentity ==
  /\ [](agentPc \in { "register", "backoff", "registered" } \/ RequestsSent > 0 =>
          /\ cfgFile.readable /\ cfgFile.json
          /\ cfgFile.token # << >> /\ cfgFile.endpoint # << >>
          /\ Len(snapshot.machine_id) = IdLen)
  /\ [](agentPc = "exited" => RequestsSent = 0)
  /\ [][/\ agentPc = "off" /\ agentPc' # "off"
         /\ \/ ~(cfgFile.readable /\ cfgFile.json)
            \/ cfgFile.token = << >> \/ cfgFile.endpoint = << >>
            \/ loadStoredMachineID(idFile).err # "nil" /\ ~AnySignal(hw)
         => agentPc' = "exited"]_vars

W_C23_ExitedWithoutSignals ==
  /\ agentPc = "exited"
  /\ loadConfig(cfgFile).err = "nil"
  /\ ~AnySignal(hw) /\ ~idFile.ok
  /\ RequestsSent = 0


\* C24: under fairness of the retry loop, the ticker and the heartbeat loop,
\* and with the endpoint eventually accepting, an agent that entered the
\* retry loop reaches Registered, the ticker keeps delivering ticks, and
\* every delivered tick is followed by its heartbeat request.
C24_EventuallyRegisteredThenHeartbeats ==
  /\ (agentPc = "register") ~> (agentPc = "registered")
  /\ (agentPc = "registered") ~> (ticks = MaxTicks)
  /\ \A n \in 1..MaxTicks : (ticks = n) ~> (hbSent = n /\ agentPc = "registered")

W_C24_AllTicksAnsweredAfterRetries ==
  /\ agentPc = "registered"
  /\ regFails > 0 /\ sleeps = regFails
  /\ ticks = MaxTicks /\ hbSent = MaxTicks /\ hbFailed = MaxTicks


\* C25: a Register call succeeds exactly when the request was transported,
\* the status is 200 and the body decodes; any other status gives the status
\* error with that status code and the body as read, an undecodable body
\* gives the decode error, and no error case returns an instance.
C25_RegisterSucceedsIff200Decodable ==
  regRes.called =>
    /\ regRes.res.err = "nil" <=>
         regRes.resp.transport /\ regRes.resp.status = 200 /\ regRes.resp.decodable
    /\ regRes.res.err = "nil" => regRes.res.instance_id = Inst1 /\ instanceID = Inst1
    /\ ~regRes.resp.transport => regRes.res.err = "send"
    /\ regRes.resp.transport /\ regRes.resp.status # 200 =>
         /\ regRes.res.err = "status"
         /\ regRes.res.status = regRes.resp.status
         /\ regRes.res.body = regRes.resp.body
    /\ regRes.resp.transport /\ regRes.resp.status = 200 /\ ~regRes.resp.decodable =>
         regRes.res.err = "parse"
    /\ regRes.res.err # "nil" => regRes.res.instance_id = << >> /\ instanceID = << >>

W_C25_CreatedStatusRejected ==
  /\ regRes.called
  /\ regRes.resp.transport /\ regRes.resp.status # 200 /\ regRes.resp.status < 300
  /\ regRes.resp.decodable
  /\ regRes.res.err = "status" /\ regRes.res.body = BodyInstance
  /\ agentPc = "backoff"

\* C26: in every snapshot the agent has built, the fingerprint is the first
\* 16 characters of the machine identifier of the same snapshot.
C26_FingerprintIsPrefixOfMachineID ==
  snapshot.built =>
    /\ Len(snapshot.machine_id) >= Len(snapshot.fingerprint)
    /\ snapshot.fingerprint = SubSeq(snapshot.machine_id, 1, Len(snapshot.fingerprint))
    /\ Len(snapshot.fingerprint) * 4 = IdLen


\* C27: after a successful configure on a config file that held a non-empty
\* current_version, the file holds the same current_version.
C27_ConfigurePreservesVersion ==
  /\ cfgRes.runs > 0 /\ cfgRes.exit = 0
  /\ cfgRes.before.readable /\ cfgRes.before.json
  /\ cfgRes.before.current_version # << >>
  => cfgFile.current_version = cfgRes.before.current_version


\* C28: the MAC signal of a derivation from hardware lists each address at
\* most once and in ascending order.
C28_MacSignalSortedAndDeduplicated ==
  /\ idRes.called
  /\ loadStoredMachineID(idRes.fileBefore).err # "nil"
  => LET macs == getMACAddresses(idRes.hwBefore)
     IN  /\ \A i, j \in 1..Len(macs) : i < j => macs[i] # macs[j]
         /\ \A i, j \in 1..Len(macs) : i < j => ~StrLess(macs[j], macs[i])

SourceValue(f) == IF f.ok THEN TrimSpace(f.data) ELSE << >>

UsableSource(v) == v # << >> /\ v # ZeroUUID /\ v # NoneSerial

\* C29: the platform UUID used by a derivation from hardware is the first of
\* product_uuid and board_serial that is non-empty and not a placeholder,
\* and is empty when neither is.
C29_PlatformUUIDNeverPlaceholder ==
  /\ idRes.called
  /\ loadStoredMachineID(idRes.fileBefore).err # "nil"
  => LET h == idRes.hwBefore
         usable == SelectSeq(<< SourceValue(h.product_uuid), SourceValue(h.board_serial) >>,
                             UsableSource)
     IN  /\ getSystemUUID(h) = IF usable = << >> THEN << >> ELSE usable[1]
         /\ getSystemUUID(h) # ZeroUUID /\ getSystemUUID(h) # NoneSerial

OtherSignal(h) == \E i \in 1..(Len(Signals(h)) - 1) : Signals(h)[i] # << >>

\* C30: when a signal other than the boot id is available, a host that
\* differs only in its boot id derives the same identifier.
C30_BootIdOnlyLastResort ==
  /\ idRes.called
  /\ loadStoredMachineID(idRes.fileBefore).err # "nil"
  /\ OtherSignal(idRes.hwBefore)
  => \A h \in Hosts :
       [h EXCEPT !.boot_id = idRes.hwBefore.boot_id] = idRes.hwBefore
         => generateFromHardware(h).id = idRes.id


\* C31: every retry of the registration carries a snapshot built for that
\* attempt: the host facts it holds are those of the host when the retry is sent.
C31_SnapshotFreshPerAttempt ==
  regRes.called /\ regCalls > 1 /\ sleeps > 0
    => regRes.sent.mac_address = getMACAddress(regRes.hwAt)


\* C36: no heartbeat has been sent while the agent has not registered, and
\* each heartbeat is sent from the registered state, after a successful
\* Register call of this process, with the instance id that call returned.
C36_HeartbeatCarriesRegisteredId ==
  /\ [](regOK = 0 => hbSent = 0 /\ ~hbReq.sent)
  /\ [][hbSent' > hbSent =>
          /\ agentPc = "registered" /\ regOK > 0
          /\ regRes.called /\ regRes.res.err = "nil"
          /\ hbReq'.sent /\ hbReq'.instance_id = regRes.res.instance_id]_vars

W_C36_HeartbeatAfterRetriedRegistration ==
  /\ hbSent > 0 /\ regFails > 0 /\ regOK > 0
  /\ hbReq.sent /\ hbReq.instance_id = Inst1


\* C32: when a run of the update script has ended, the persisted
\* current_version names the version of the binary at the install path.
C32_VersionNamesInstalledBinary ==
  /\ scrPc = "idle" /\ scrRuns > 0
  /\ cfgFile.readable /\ cfgFile.json
  /\ binPath.present
  => cfgFile.current_version = binPath.ver


\* C34: when a run that stopped the running service has ended, it has
\* issued a start or a restart of the service after the stop.
C34_StoppedServiceIsStartedAgain ==
  /\ scrPc = "idle" /\ scrRuns > 0
  /\ wasRunning /\ \E i \in 1..Len(scrOps) : scrOps[i] = "stop"
  => \E i, j \in 1..Len(scrOps) :
       i < j /\ scrOps[i] = "stop" /\ scrOps[j] \in { "start", "restart" }

\* C35: when a run that found the service inactive has ended, the service
\* is inactive.
C35_InactiveServiceStaysInactive ==
  /\ scrPc = "idle" /\ scrRuns > 0
  /\ ~wasRunning /\ \E i \in 1..Len(scrOps) : scrOps[i] = "backup"
  => svc = "inactive"


\* C33: a check never starts the download of release tag T when the binary
\* at the install path is the one an earlier check swapped in for T.
C33_UpdateAppliedOnce ==
  engOutcome = "update" /\ engPc = "download" /\ engChecks > 1
    => ~(binPath.present /\ Complete(binPath) /\ binPath.ver = engTag)


\* C37: after a successful configure on an existing config file, the file
\* holds the auto_update value it held before.
C37_ConfigureKeepsAutoUpdate ==
  /\ cfgRes.runs > 0 /\ cfgRes.exit = 0
  /\ cfgRes.before.readable /\ cfgRes.before.json
  => cfgFile.auto_update = cfgRes.before.auto_update


\* C38: when a configure and a version bump have both completed, whatever
\* their interleaving, the config file holds the token and endpoint of the
\* configure and the version of the bump.
C38_ConfigWritersKeepEachOther ==
  /\ cfgCmd.pc = "idle" /\ cfgCmd.written
  /\ bumpCmd.pc = "idle" /\ bumpCmd.moved
  => /\ cfgFile.token = cfgCmd.token /\ cfgFile.endpoint = cfgCmd.endpoint
     /\ cfgFile.current_version = bumpCmd.new_version


\* C39: a host whose signals differ from those of the host an identifier was
\* derived on never has the same hash input.
C39_SignalCombinationInjective ==
  /\ idRes.called
  /\ loadStoredMachineID(idRes.fileBefore).err # "nil"
  /\ idRes.err = "nil"
  => \A h \in Hosts :
       AnySignal(h) /\ Signals(h) # Signals(idRes.hwBefore)
         => /\ HashedInput(h) # HashedInput(idRes.hwBefore)
            /\ generateFromHardware(h).id # idRes.id

=============================================================================
